---- MODULE Spec2Model ----
(***************************************************************************)
(* A model of rmqtt-cluster-raft/src/lib.rs: the retrying RPC sender       *)
(* (MessageSender::send), the retrying address resolver (parse_addr), the  *)
(* raft bootstrap (ClusterPlugin::start_raft) with its dedicated           *)
(* "cluster-raft" thread, and the start-up poll loop of Plugin::init.      *)
(***************************************************************************)
EXTENDS Integers, Sequences, FiniteSets, TLC

VARIABLES
    \* MessageSender::send
    max_retries,      \* self.max_retries
    current_retry,    \* the local current_retry
    send_pc,          \* "idle" | "attempt" | "sleep" | "done"
    send_log,         \* outcome of every send_message attempt, in order
    send_result,      \* the value send returns
    send_errlog,      \* what the log::error! line of send recorded
    send_sleeps,      \* number of retry_interval sleeps taken
    \* parse_addr
    p_pc,             \* "idle" | "resolve" | "sleep" | "done"
    p_addr,           \* the addr argument
    p_i,              \* the loop variable i of `for i in 0..10`
    p_last,           \* outcome of the last to_socket_addrs call
    p_result,         \* the value parse_addr returns
    p_attempts,       \* to_socket_addrs calls made by the current parse_addr call
    p_sleeps,         \* sleeps taken by the current parse_addr call
    \* ClusterPlugin::start_raft and Plugin::init (the host's main flow)
    raft_peer_addrs,  \* cfg.raft_peer_addrs: a list of (id, addr) entries
    pc,               \* position of the main flow inside init / start_raft
    raft_laddr,       \* the local raft_laddr of start_raft
    raft,             \* the Raft instance built by Raft::new
    peer_addrs,       \* the local Vec peer_addrs of start_raft
    peer_k,           \* position of `for peer in raft_peer_addrs.iter()`
    leader_info,      \* what raft.find_leader_info(peer_addrs) returned
    start_raft_result,\* the Result<Mailbox> of start_raft
    init_result,      \* the Result<()> of init
    \* the "cluster-raft" thread and the process
    t_pc,             \* "none" | "spawned" | "serving" | "returned" | "flush" | "ended"
    raft_handle,      \* the value of `raft_handle` once the spawned future completed
    raft_calls,       \* the raft.lead / raft.join invocations, in order
    proc,             \* "running" | "exited"
    exit_code,        \* the status given to std::process::exit
    \* the poll loop of init
    g_i,              \* the loop variable i of `for i in 0..30`
    g_polls,          \* raft_mailbox.status() calls made
    g_sleeps,         \* 500 ms sleeps taken
    g_last,           \* result of the last status() call
    g_first_started,  \* the i of the first status() that reported started, or NoCount
    \* fields of ClusterPlugin and of its collaborators
    raft_mailbox,     \* self.raft_mailbox: Option<Mailbox>
    router_mailbox,   \* what router.set_raft_mailbox received
    hooks,            \* hook types added to self.register, in order
    \* several nodes of one peer set, each running start_raft
    c_pc,             \* per node: "down" | "built" | "probed" | "spawned" | "serving"
    c_info,           \* per node: its leader_info
    c_calls,          \* per node: its raft.lead / raft.join invocations
    \* the plugin over a sequence of lifecycle calls (init, start, stop, attrs)
    l_pc,             \* "idle" | "start_status": start() between lines 267 and 268
    l_calls,          \* lifecycle calls made so far
    l_stops,          \* stop() calls made so far
    l_engines,        \* Raft instances built so far, numbered 1, 2, ...
    l_threads,        \* "cluster-raft" threads spawned so far
    l_live,           \* threads spawned and not ended
    l_mailbox,        \* self.raft_mailbox: 0 for None, else the number of its Raft
    l_router_mailbox, \* the mailbox the router holds, likewise
    l_hooks,          \* hook handlers added to self.register
    l_router_installed,  \* runtime.extends.router_mut() holds self.router
    l_shared_installed,  \* runtime.extends.shared_mut() holds self.shared
    l_register_started,  \* self.register.start() was called
    l_gate_exhausted, \* the poll loop of the last successful init saw no started status
    l_init_result,    \* the Result<()> of the last init
    l_start_status,   \* the status() result the last start() looked at
    l_start_result,   \* the Result<()> of the last start()
    l_stop_result,    \* the Result<bool> of the last stop()
    l_last,           \* how the last call ended: its name, or "panic"
    l_proc,           \* "running" | "exited"
    \* the TASK_EXEC_QUEUE cell
    x_cell,           \* the OnceCell: unset, or the executor it was set to
    x_built,          \* executors built by Builder::build so far
    x_runners,        \* task_runner futures handed to tokio::spawn so far
    x_calls,          \* init_task_exec_queue / task_exec_queue calls made so far
    x_last,           \* how the last call ended
    x_got             \* the executor the last task_exec_queue() returned

sendVars == <<max_retries, current_retry, send_pc, send_log, send_result,
              send_errlog, send_sleeps>>
parseVars == <<p_pc, p_addr, p_i, p_last, p_result, p_attempts, p_sleeps>>
bootVars == <<raft_peer_addrs, pc, raft_laddr, raft, peer_addrs, peer_k, leader_info,
              start_raft_result, init_result>>
threadVars == <<t_pc, raft_handle, raft_calls, proc, exit_code>>
gateVars == <<g_i, g_polls, g_sleeps, g_last, g_first_started>>
pluginVars == <<raft_mailbox, router_mailbox, hooks>>
mainVars == <<bootVars, threadVars, gateVars, pluginVars>>
clusterVars == <<c_pc, c_info, c_calls>>
lifeVars == <<l_pc, l_calls, l_stops, l_engines, l_threads, l_live, l_mailbox,
              l_router_mailbox, l_hooks, l_router_installed, l_shared_installed,
              l_register_started, l_gate_exhausted, l_init_result, l_start_status,
              l_start_result, l_stop_result, l_last, l_proc>>
execVars == <<x_cell, x_built, x_runners, x_calls, x_last, x_got>>
vars == <<sendVars, parseVars, mainVars, clusterVars, lifeVars, execVars>>

----------------------------------------------------------------------------
(* Bounds of the model.                                                    *)

\* largest max_retries an instance of MessageSender is built with
MaxRetriesBound == 3

\* replies and errors a NodeGrpcClient::send_message call can produce
Replies == {"r1", "r2"}
SendErrors == {"x1", "x2"}

\* textual addresses of the configuration and the socket addresses they resolve to
Addrs == {"a", "b"}
Endpoints == {"e1", "e2"}

----------------------------------------------------------------------------
(* MessageSender::send                                                     *)

\* a Result<MessageReply>: Ok(reply) or Err(e). Neither variant has room for a
\* retry count: `retries` is NoCount in every value the code builds, also in
\* the Err built where current_retry is at hand.
NoCount == -1
NoValue == "none"
SendOk(reply) == [ok |-> TRUE, val |-> reply, retries |-> NoCount]
SendErrTagged(e, retries) == [ok |-> FALSE, val |-> e, retries |-> retries]
SendErr(e, retries) == [ok |-> FALSE, val |-> e, retries |-> NoCount]
NoSendResult == [ok |-> FALSE, val |-> NoValue, retries |-> NoCount]
NoErrLog == [retries |-> NoCount, err |-> NoValue]

\* `if current_retry < self.max_retries`
SendRetryOffByOne(retry, max) == retry <= max
SendMayRetry(retry, max) == retry < max

SendIdle ==
    /\ max_retries = 0
    /\ current_retry = 0
    /\ send_pc = "idle"
    /\ send_log = <<>>
    /\ send_result = NoSendResult
    /\ send_errlog = NoErrLog
    /\ send_sleeps = 0

\* a MessageSender is built and send() entered: `let mut current_retry = 0usize`
SendInit ==
    /\ max_retries \in 0..MaxRetriesBound
    /\ current_retry = 0
    /\ send_pc = "attempt"
    /\ send_log = <<>>
    /\ send_result = NoSendResult
    /\ send_errlog = NoErrLog
    /\ send_sleeps = 0

\* send_message(...).await returned Ok(reply): `return Ok(reply)`
SendAttemptOk ==
    /\ send_pc = "attempt"
    /\ \E reply \in Replies :
        /\ send_log' = Append(send_log, [ok |-> TRUE, val |-> reply])
        /\ send_result' = SendOk(reply)
    /\ send_pc' = "done"
    /\ UNCHANGED <<max_retries, current_retry, send_errlog, send_sleeps>>
    /\ UNCHANGED <<parseVars, mainVars, clusterVars, lifeVars, execVars>>

\* send_message(...).await returned Err(e)
SendAttemptErr ==
    /\ send_pc = "attempt"
    /\ \E e \in SendErrors :
        /\ send_log' = Append(send_log, [ok |-> FALSE, val |-> e])
        /\ IF SendMayRetry(current_retry, max_retries)
              THEN /\ current_retry' = current_retry + 1
                   /\ send_pc' = "sleep"
                   /\ UNCHANGED <<send_result, send_errlog>>
              ELSE /\ send_errlog' = [retries |-> max_retries, err |-> e]
                   /\ send_result' = SendErr(e, current_retry)
                   /\ send_pc' = "done"
                   /\ UNCHANGED current_retry
    /\ UNCHANGED <<max_retries, send_sleeps>>
    /\ UNCHANGED <<parseVars, mainVars, clusterVars, lifeVars, execVars>>

\* tokio::time::sleep(self.retry_interval).await, then the next loop iteration
SendSleep ==
    /\ send_pc = "sleep"
    /\ send_sleeps' = send_sleeps + 1
    /\ send_pc' = "attempt"
    /\ UNCHANGED <<max_retries, current_retry, send_log, send_result, send_errlog>>
    /\ UNCHANGED <<parseVars, mainVars, clusterVars, lifeVars, execVars>>



----------------------------------------------------------------------------
(* parse_addr                                                              *)

\* `for i in 0..10`
ParseMaxAttempts == 10

\* what addr.to_socket_addrs() can return: Err(e), or Ok(iterator) over zero or
\* more socket addresses
Resolutions ==
    {[err |-> TRUE, addrs |-> <<>>]} \cup
    {[err |-> FALSE, addrs |-> s] :
        s \in {<<>>} \cup {<<e>> : e \in Endpoints}
                     \cup {<<e, f>> : e \in Endpoints, f \in Endpoints}}
NoResolution == [err |-> TRUE, addrs |-> <<>>]

\* format!("Parsing address{:?} error", addr)
ParseErrMsg(addr) == <<"Parsing address", addr, " error">>
ParseOk(a) == [ok |-> TRUE, ep |-> a, msg |-> <<>>]
ParseErr(addr) == [ok |-> FALSE, ep |-> NoValue, msg |-> ParseErrMsg(addr)]
NoParseResult == [ok |-> FALSE, ep |-> NoValue, msg |-> <<>>]

\* `to_socket_addrs.next()` of a non-empty iterator
LastSocketAddr(addrs) == addrs[Len(addrs)]
FirstSocketAddr(addrs) == Head(addrs)

\* the loop condition of `for i in 0..10` after i has been advanced
ParseLoopOneMore(i) == i <= ParseMaxAttempts
ParseLoopContinues(i) == i < ParseMaxAttempts

ParseIdle ==
    /\ p_pc = "idle"
    /\ p_addr = NoValue
    /\ p_i = 0
    /\ p_last = NoResolution
    /\ p_result = NoParseResult
    /\ p_attempts = 0
    /\ p_sleeps = 0

\* entry of parse_addr(addr)
ParseEnter(addr) ==
    /\ p_pc' = "resolve"
    /\ p_addr' = addr
    /\ p_i' = 0
    /\ p_last' = NoResolution
    /\ p_result' = NoParseResult
    /\ p_attempts' = 0
    /\ p_sleeps' = 0

ParseInit ==
    /\ p_pc = "resolve"
    /\ p_addr \in Addrs
    /\ p_i = 0
    /\ p_last = NoResolution
    /\ p_result = NoParseResult
    /\ p_attempts = 0
    /\ p_sleeps = 0

\* one `match addr.to_socket_addrs()`: a first address returns at once, an
\* error or an empty iterator falls through to the sleep
ParseResolve ==
    /\ p_pc = "resolve"
    /\ \E r \in Resolutions :
        /\ p_last' = r
        /\ IF ~r.err /\ r.addrs # <<>>
              THEN /\ p_result' = ParseOk(FirstSocketAddr(r.addrs))
                   /\ p_pc' = "done"
              ELSE /\ p_pc' = "sleep"
                   /\ UNCHANGED p_result
    /\ p_attempts' = p_attempts + 1
    /\ UNCHANGED <<p_addr, p_i, p_sleeps>>
    /\ UNCHANGED <<sendVars, clusterVars, lifeVars, execVars, mainVars>>

\* sleep((rand % 300) + 500 ms), then the next i, or the final Err after the loop
ParseSleep ==
    /\ p_pc = "sleep"
    /\ p_sleeps' = p_sleeps + 1
    /\ p_i' = p_i + 1
    /\ IF ParseLoopContinues(p_i + 1)
          THEN /\ p_pc' = "resolve"
               /\ UNCHANGED p_result
          ELSE /\ p_pc' = "done"
               /\ p_result' = ParseErr(p_addr)
    /\ UNCHANGED <<p_addr, p_last, p_attempts>>
    /\ UNCHANGED <<sendVars, clusterVars, lifeVars, execVars, mainVars>>




\* the caller took the value parse_addr returned: its locals are gone
ParseReturn ==
    /\ p_pc' = "returned"
    /\ p_addr' = NoValue
    /\ p_i' = 0
    /\ p_last' = NoResolution
    /\ p_result' = NoParseResult
    /\ p_attempts' = 0
    /\ p_sleeps' = 0

----------------------------------------------------------------------------
(* Configuration                                                           *)

\* longest cfg.raft_peer_addrs of the model
MaxPeers == 2

\* Runtime::instance().node.id()
LocalId == 1
NodeIds == {1, 2}

PeerEntries == [id : NodeIds, addr : Addrs]
PeerConfigs == UNION {[1..n -> PeerEntries] : n \in 0..MaxPeers}

----------------------------------------------------------------------------
(* ClusterPlugin::start_raft                                               *)

NoSelfErr == <<"raft listening address does not exist">>
RaftNewErr == <<"Raft::new", "error">>
FindLeaderErr == <<"find_leader_info", "error">>
SpawnErr == <<"thread spawn", "io error">>
NoErr == <<>>

Pending == [done |-> FALSE, ok |-> FALSE, err |-> NoErr]
Succeeded == [done |-> TRUE, ok |-> TRUE, err |-> NoErr]
Failed(e) == [done |-> TRUE, ok |-> FALSE, err |-> e]

NoRaft == [built |-> FALSE, laddr |-> NoValue]
NoLeaderInfo == [some |-> FALSE, id |-> 0, addr |-> NoValue]
SomeLeader(id, addr) == [some |-> TRUE, id |-> id, addr |-> addr]

\* `raft_peer_addrs.iter().find(|peer| peer.id == id)`: the index of the first
\* entry whose id is the local id, 0 when there is none
SelfIndexes(peers, id) == {k \in 1..Len(peers) : peers[k].id = id}
MinOf(S) == CHOOSE k \in S : \A j \in S : k <= j
MaxOf(S) == CHOOSE k \in S : \A j \in S : j <= k
FindSelfLast(peers, id) ==
    IF SelfIndexes(peers, id) = {} THEN 0 ELSE MaxOf(SelfIndexes(peers, id))
FindSelfAny(peers, id) == IF Len(peers) = 0 THEN 0 ELSE 1
FindSelf(peers, id) ==
    IF SelfIndexes(peers, id) = {} THEN 0 ELSE MinOf(SelfIndexes(peers, id))

\* start_raft returns: its locals raft_laddr and peer_addrs are moved or dropped
StartRaftReturns ==
    /\ raft_laddr' = NoValue
    /\ peer_addrs' = <<>>
    /\ peer_k' = 0

\* (a variant in which init does not stop at the error of start_raft)
StartRaftFailsIgnored(e) ==
    /\ start_raft_result' = Failed(e)
    /\ UNCHANGED init_result
    /\ pc' = "gate_poll"
    /\ StartRaftReturns

\* the `?` of start_raft inside init: init returns the same error at once
StartRaftFails(e) ==
    /\ start_raft_result' = Failed(e)
    /\ init_result' = Failed(e)
    /\ pc' = "init_failed"
    /\ StartRaftReturns

Alive == proc = "running"

\* lines 132-144: find the own entry, or fail; then enter parse_addr(&raft_laddr)
StartRaftFindSelf ==
    /\ Alive /\ pc = "start_raft"
    /\ LET k == FindSelf(raft_peer_addrs, LocalId) IN
        IF k = 0
           THEN /\ StartRaftFails(NoSelfErr)
                /\ UNCHANGED parseVars
           ELSE /\ raft_laddr' = raft_peer_addrs[k].addr
                /\ ParseEnter(raft_peer_addrs[k].addr)
                /\ pc' = "verify_laddr"
                /\ UNCHANGED <<peer_addrs, peer_k, start_raft_result, init_result>>
    /\ UNCHANGED <<raft_peer_addrs, raft, leader_info>>
    /\ UNCHANGED <<sendVars, clusterVars, lifeVars, execVars, threadVars, gateVars, pluginVars>>

\* line 144: `parse_addr(&raft_laddr).await?`, the address itself is dropped
StartRaftVerified ==
    /\ Alive /\ pc = "verify_laddr" /\ p_pc = "done"
    /\ IF p_result.ok
          THEN /\ pc' = "raft_new"
               /\ UNCHANGED <<raft_laddr, peer_addrs, peer_k, start_raft_result, init_result>>
          ELSE StartRaftFails(p_result.msg)
    /\ ParseReturn
    /\ UNCHANGED <<raft_peer_addrs, raft, leader_info>>
    /\ UNCHANGED <<sendVars, clusterVars, lifeVars, execVars, threadVars, gateVars, pluginVars>>

\* (a variant in which Ok(mailbox) is returned as soon as the Raft is built)
StartRaftNewReturnsAtOnce ==
    /\ Alive /\ pc = "raft_new"
    /\ raft' = [built |-> TRUE, laddr |-> raft_laddr]
    /\ start_raft_result' = Succeeded
    /\ pc' = "gate_poll"
    /\ StartRaftReturns
    /\ UNCHANGED <<raft_peer_addrs, leader_info, init_result>>
    /\ UNCHANGED <<sendVars, clusterVars, lifeVars, execVars, parseVars, threadVars, gateVars, pluginVars>>

\* lines 146-150: Raft::new(raft_laddr, ...) and raft.mailbox()
StartRaftNew ==
    /\ Alive /\ pc = "raft_new"
    /\ \/ /\ raft' = [built |-> TRUE, laddr |-> raft_laddr]
          /\ peer_addrs' = <<>>
          /\ peer_k' = 1
          /\ pc' = "peers"
          /\ UNCHANGED <<raft_laddr, start_raft_result, init_result>>
       \/ /\ StartRaftFails(RaftNewErr)
          /\ UNCHANGED raft
    /\ UNCHANGED <<raft_peer_addrs, leader_info>>
    /\ UNCHANGED <<sendVars, clusterVars, lifeVars, execVars, parseVars, threadVars, gateVars, pluginVars>>

\* lines 151-153: the next entry of the loop; an entry with another id enters
\* parse_addr(&peer.addr), an own entry is skipped
StartRaftNextPeer ==
    /\ Alive /\ pc = "peers" /\ peer_k <= Len(raft_peer_addrs)
    /\ IF raft_peer_addrs[peer_k].id # LocalId
          THEN /\ ParseEnter(raft_peer_addrs[peer_k].addr)
               /\ pc' = "resolve_peer"
               /\ UNCHANGED peer_k
          ELSE /\ peer_k' = peer_k + 1
               /\ UNCHANGED <<pc, parseVars>>
    /\ UNCHANGED <<raft_peer_addrs, raft_laddr, raft, peer_addrs, leader_info,
                   start_raft_result, init_result>>
    /\ UNCHANGED <<sendVars, clusterVars, lifeVars, execVars, threadVars, gateVars, pluginVars>>

\* line 153: `peer_addrs.push(parse_addr(&peer.addr).await?.to_string())`
StartRaftPeerResolved ==
    /\ Alive /\ pc = "resolve_peer" /\ p_pc = "done"
    /\ IF p_result.ok
          THEN /\ peer_addrs' = Append(peer_addrs, p_result.ep)
               /\ peer_k' = peer_k + 1
               /\ pc' = "peers"
               /\ UNCHANGED <<raft_laddr, start_raft_result, init_result>>
          ELSE StartRaftFails(p_result.msg)
    /\ ParseReturn
    /\ UNCHANGED <<raft_peer_addrs, raft, leader_info>>
    /\ UNCHANGED <<sendVars, clusterVars, lifeVars, execVars, threadVars, gateVars, pluginVars>>

\* raft.find_leader_info(peer_addrs): None, or the id and address of the leader
\* a probed peer reported
FindLeaderInfo(addrs) ==
    {NoLeaderInfo} \cup
    (IF addrs = <<>> THEN {}
     ELSE {SomeLeader(l, a) : l \in NodeIds, a \in Endpoints})

\* lines 158-159
StartRaftFindLeader ==
    /\ Alive /\ pc = "peers" /\ peer_k > Len(raft_peer_addrs)
    /\ \/ /\ leader_info' \in FindLeaderInfo(peer_addrs)
          /\ pc' = "spawn"
          /\ UNCHANGED <<raft_laddr, peer_addrs, peer_k, start_raft_result, init_result>>
       \/ /\ StartRaftFails(FindLeaderErr)
          /\ UNCHANGED leader_info
    /\ UNCHANGED <<raft_peer_addrs, raft>>
    /\ UNCHANGED <<sendVars, clusterVars, lifeVars, execVars, parseVars, threadVars, gateVars, pluginVars>>

\* lines 162-199: spawn the "cluster-raft" thread and return Ok(mailbox); init
\* goes on to its poll loop
StartRaftSpawn ==
    /\ Alive /\ pc = "spawn"
    /\ \/ /\ t_pc' = "spawned"
          /\ start_raft_result' = Succeeded
          /\ pc' = "gate_poll"
          /\ StartRaftReturns
          /\ UNCHANGED init_result
       \/ /\ StartRaftFails(SpawnErr)
          /\ UNCHANGED t_pc
    /\ UNCHANGED <<raft_peer_addrs, raft, leader_info>>
    /\ UNCHANGED <<raft_handle, raft_calls, proc, exit_code>>
    /\ UNCHANGED <<sendVars, clusterVars, lifeVars, execVars, parseVars, gateVars, pluginVars>>

----------------------------------------------------------------------------
(* The "cluster-raft" thread: the runner future and what follows block_on  *)

\* exit status of `std::process::exit(-1)`
ExitStatus == -1
NoExit == 0

LeadCall(id) == [fn |-> "lead", id |-> id, leader_id |-> 0, leader_addr |-> NoValue]
JoinCall(id, leader_id, leader_addr) ==
    [fn |-> "join", id |-> id, leader_id |-> leader_id, leader_addr |-> leader_addr]

\* `match leader_info`: Some((leader_id, leader_addr)) => raft.join(id,
\* Some(leader_id), leader_addr), None => raft.lead(id)
RunnerRoleSwapped(info, id) ==
    IF info.some THEN LeadCall(id) ELSE JoinCall(id, info.id, info.addr)
RunnerRoleJoinsSelf(info, id) ==
    IF info.some THEN JoinCall(id, id, info.addr) ELSE LeadCall(id)
RunnerRole(info, id) ==
    IF info.some THEN JoinCall(id, info.id, info.addr) ELSE LeadCall(id)

\* what `tokio::spawn(...).await` can yield: a JoinError, Ok(Err(e)) or Ok(Ok(()))
RaftHandles == {"JoinErr", "OkErr", "OkOk"}

\* `if let Err(_) | Ok(Err(_)) = raft_handle`
RunnerFailsOnJoinErrOnly(handle) == handle = "JoinErr"
RunnerFails(handle) == handle \in {"JoinErr", "OkErr"}

\* lines 171-187: the runner starts and spawns raft.join or raft.lead
Runner ==
    /\ Alive /\ t_pc = "spawned"
    /\ raft_calls' = Append(raft_calls, RunnerRole(leader_info, LocalId))
    /\ t_pc' = "serving"
    /\ UNCHANGED <<raft_handle, proc, exit_code>>
    /\ UNCHANGED <<sendVars, clusterVars, lifeVars, execVars, parseVars, bootVars, gateVars, pluginVars>>

\* the spawned lead/join future completes, with any outcome
RunnerFutureCompletes ==
    /\ Alive /\ t_pc = "serving"
    /\ raft_handle' \in RaftHandles
    /\ t_pc' = "returned"
    /\ UNCHANGED <<raft_calls, proc, exit_code>>
    /\ UNCHANGED <<sendVars, clusterVars, lifeVars, execVars, parseVars, bootVars, gateVars, pluginVars>>

\* lines 189-197: a failure logs and starts the 500 ms sleep; otherwise the
\* runner is over, block_on returns and the thread logs and ends
RunnerCheck ==
    /\ Alive /\ t_pc = "returned"
    /\ t_pc' = IF RunnerFails(raft_handle) THEN "flush" ELSE "ended"
    /\ UNCHANGED <<raft_handle, raft_calls, proc, exit_code>>
    /\ UNCHANGED <<sendVars, clusterVars, lifeVars, execVars, parseVars, bootVars, gateVars, pluginVars>>

\* line 192: `std::process::exit(-1)` after the sleep
RunnerExit ==
    /\ Alive /\ t_pc = "flush"
    /\ proc' = "exited"
    /\ exit_code' = ExitStatus
    /\ UNCHANGED <<t_pc, raft_handle, raft_calls>>
    /\ UNCHANGED <<sendVars, clusterVars, lifeVars, execVars, parseVars, bootVars, gateVars, pluginVars>>

----------------------------------------------------------------------------
(* Plugin::init after start_raft: the poll loop, then mailbox and hooks    *)

\* `for i in 0..30`
GateMaxAttempts == 30

\* raft_mailbox.status().await: Err(e), or Ok(status) with or without is_started()
StatusResults == {"Err", "NotStarted", "Started"}

\* `Ok(status) => if status.is_started() { break; }`
GateBreaksOnAnyOk(st) == st # "Err"
GateBreaks(st) == st = "Started"

\* the loop condition of `for i in 0..30` after i has been advanced
GateLoopContinues(i) == i < GateMaxAttempts

NoMailbox == [some |-> FALSE, laddr |-> NoValue]
\* raft.mailbox(): the handle of the Raft instance
MailboxOf(r) == [some |-> TRUE, laddr |-> r.laddr]

HookTypes == <<"ClientDisconnected", "SessionTerminated", "GrpcMessageReceived">>

\* lines 227-237: one status query
GatePoll ==
    /\ Alive /\ pc = "gate_poll"
    /\ \E st \in StatusResults :
        /\ g_last' = st
        /\ g_first_started' =
              IF st = "Started" /\ g_first_started = NoCount THEN g_i
              ELSE g_first_started
        /\ pc' = IF GateBreaks(st) THEN "store" ELSE "gate_sleep"
    /\ g_polls' = g_polls + 1
    /\ UNCHANGED <<g_i, g_sleeps>>
    /\ UNCHANGED <<raft_peer_addrs, raft_laddr, raft, peer_addrs, peer_k, leader_info,
                   start_raft_result, init_result>>
    /\ UNCHANGED <<sendVars, clusterVars, lifeVars, execVars, parseVars, threadVars, pluginVars>>

\* line 238: sleep 500 ms, then the next i or the end of the loop
GateSleep ==
    /\ Alive /\ pc = "gate_sleep"
    /\ g_sleeps' = g_sleeps + 1
    /\ g_i' = g_i + 1
    /\ pc' = IF GateLoopContinues(g_i + 1) THEN "gate_poll" ELSE "store"
    /\ UNCHANGED <<g_polls, g_last, g_first_started>>
    /\ UNCHANGED <<raft_peer_addrs, raft_laddr, raft, peer_addrs, peer_k, leader_info,
                   start_raft_result, init_result>>
    /\ UNCHANGED <<sendVars, clusterVars, lifeVars, execVars, parseVars, threadVars, pluginVars>>

\* (a variant that hands the mailbox to the router and leaves the field unset)
InitStoreRouterOnly ==
    /\ Alive /\ pc = "store"
    /\ router_mailbox' = MailboxOf(raft)
    /\ pc' = "hooks"
    /\ UNCHANGED <<raft_mailbox, hooks>>
    /\ UNCHANGED <<raft_peer_addrs, raft_laddr, raft, peer_addrs, peer_k, leader_info,
                   start_raft_result, init_result>>
    /\ UNCHANGED <<sendVars, clusterVars, lifeVars, execVars, parseVars, threadVars, gateVars>>

\* lines 241-242: self.raft_mailbox.replace(..) and router.set_raft_mailbox(..)
InitStore ==
    /\ Alive /\ pc = "store"
    /\ raft_mailbox' = MailboxOf(raft)
    /\ router_mailbox' = MailboxOf(raft)
    /\ pc' = "hooks"
    /\ UNCHANGED hooks
    /\ UNCHANGED <<raft_peer_addrs, raft_laddr, raft, peer_addrs, peer_k, leader_info,
                   start_raft_result, init_result>>
    /\ UNCHANGED <<sendVars, clusterVars, lifeVars, execVars, parseVars, threadVars, gateVars>>

\* lines 244-248: three hook_register calls, each through self.raft_mailbox(),
\* which is unreachable!() when the field is None; then Ok(())
InitHooks ==
    /\ Alive /\ pc = "hooks"
    /\ IF raft_mailbox.some
          THEN /\ hooks' = hooks \o HookTypes
               /\ init_result' = Succeeded
               /\ pc' = "init_done"
          ELSE /\ pc' = "panicked"
               /\ UNCHANGED <<hooks, init_result>>
    /\ UNCHANGED <<raft_mailbox, router_mailbox>>
    /\ UNCHANGED <<raft_peer_addrs, raft_laddr, raft, peer_addrs, peer_k, leader_info,
                   start_raft_result>>
    /\ UNCHANGED <<sendVars, clusterVars, lifeVars, execVars, parseVars, threadVars, gateVars>>

----------------------------------------------------------------------------
(* The nodes of one fixed peer set, each bootstrapping with start_raft     *)

\* number of nodes of the peer set
NumNodes == 3
ClusterNodes == 1..NumNodes

\* the socket address node n listens on
ClusterAddr(n) == ToString(n)

\* node n runs in the LEADER role: its runner invoked raft.lead
IsLeader(n) == c_calls[n] # <<>> /\ c_calls[n][1].fn = "lead"
IsFollower(n) == c_calls[n] # <<>> /\ c_calls[n][1].fn = "join"

\* raft.find_leader_info(peer_addrs) of node n: a peer that runs as leader is
\* found; with no peer running as leader the answer is None
ClusterFindLeaderInfo(n) ==
    IF \E l \in ClusterNodes \ {n} : IsLeader(l)
       THEN {SomeLeader(l, ClusterAddr(l)) : l \in {m \in ClusterNodes \ {n} : IsLeader(m)}}
       ELSE {NoLeaderInfo}

\* lines 132-155 on node n: own entry found, addresses resolved, Raft built
ClusterStart(n) ==
    /\ c_pc[n] = "down"
    /\ c_pc' = [c_pc EXCEPT ![n] = "built"]
    /\ UNCHANGED <<c_info, c_calls>>
    /\ UNCHANGED <<sendVars, parseVars, mainVars, lifeVars, execVars>>

\* lines 158-159 on node n
ClusterProbe(n) ==
    /\ c_pc[n] = "built"
    /\ \E info \in ClusterFindLeaderInfo(n) : c_info' = [c_info EXCEPT ![n] = info]
    /\ c_pc' = [c_pc EXCEPT ![n] = "probed"]
    /\ UNCHANGED c_calls
    /\ UNCHANGED <<sendVars, parseVars, mainVars, lifeVars, execVars>>

\* lines 162-199 on node n: the thread is spawned
ClusterSpawn(n) ==
    /\ c_pc[n] = "probed"
    /\ c_pc' = [c_pc EXCEPT ![n] = "spawned"]
    /\ UNCHANGED <<c_info, c_calls>>
    /\ UNCHANGED <<sendVars, parseVars, mainVars, lifeVars, execVars>>

\* lines 171-187 on node n: the runner invokes raft.join or raft.lead
ClusterRunner(n) ==
    /\ c_pc[n] = "spawned"
    /\ c_calls' = [c_calls EXCEPT ![n] = Append(@, RunnerRole(c_info[n], n))]
    /\ c_pc' = [c_pc EXCEPT ![n] = "serving"]
    /\ UNCHANGED c_info
    /\ UNCHANGED <<sendVars, parseVars, mainVars, lifeVars, execVars>>

ClusterIdle ==
    /\ c_pc = [n \in ClusterNodes |-> "off"]
    /\ c_info = [n \in ClusterNodes |-> NoLeaderInfo]
    /\ c_calls = [n \in ClusterNodes |-> <<>>]

\* no node of the peer set has started yet
ClusterInit ==
    /\ c_pc = [n \in ClusterNodes |-> "down"]
    /\ c_info = [n \in ClusterNodes |-> NoLeaderInfo]
    /\ c_calls = [n \in ClusterNodes |-> <<>>]

----------------------------------------------------------------------------
(* Initial states                                                          *)

MainIdle ==
    /\ raft_peer_addrs = <<>>
    /\ pc = "off"
    /\ raft_laddr = NoValue
    /\ raft = NoRaft
    /\ peer_addrs = <<>>
    /\ peer_k = 0
    /\ leader_info = NoLeaderInfo
    /\ start_raft_result = Pending
    /\ init_result = Pending
    /\ t_pc = "none"
    /\ raft_handle = NoValue
    /\ raft_calls = <<>>
    /\ proc = "running"
    /\ exit_code = NoExit
    /\ g_i = 0
    /\ g_polls = 0
    /\ g_sleeps = 0
    /\ g_last = NoValue
    /\ g_first_started = NoCount
    /\ raft_mailbox = NoMailbox
    /\ router_mailbox = NoMailbox
    /\ hooks = <<>>

\* ClusterPlugin::new has run (raft_mailbox = None) and init is entered: it
\* calls start_raft first
MainInit ==
    /\ raft_peer_addrs \in PeerConfigs
    /\ pc = "start_raft"
    /\ raft_laddr = NoValue
    /\ raft = NoRaft
    /\ peer_addrs = <<>>
    /\ peer_k = 0
    /\ leader_info = NoLeaderInfo
    /\ start_raft_result = Pending
    /\ init_result = Pending
    /\ t_pc = "none"
    /\ raft_handle = NoValue
    /\ raft_calls = <<>>
    /\ proc = "running"
    /\ exit_code = NoExit
    /\ g_i = 0
    /\ g_polls = 0
    /\ g_sleeps = 0
    /\ g_last = NoValue
    /\ g_first_started = NoCount
    /\ raft_mailbox = NoMailbox
    /\ router_mailbox = NoMailbox
    /\ hooks = <<>>

----------------------------------------------------------------------------
(* The plugin over a sequence of lifecycle calls.  The host calls init,    *)
(* start, stop and attrs on one ClusterPlugin, one call at a time (init,   *)
(* start and stop take &mut self); the threads the inits spawned run       *)
(* beside the calls.                                                       *)

MaxLifeCalls == 4

\* where start_raft returns: the `?` or Err it leaves by, or "ok" (line 199)
StartRaftStages ==
    {"find_self", "verify_laddr", "raft_new", "peers", "find_leader", "spawn", "ok"}

\* the errors start_raft can leave with at a stage
StageErrs(stage) ==
    CASE stage = "find_self"    -> {NoSelfErr}
      [] stage = "verify_laddr" -> {ParseErrMsg(a) : a \in Addrs}
      [] stage = "raft_new"     -> {RaftNewErr}
      [] stage = "peers"        -> {ParseErrMsg(a) : a \in Addrs}
      [] stage = "find_leader"  -> {FindLeaderErr}
      [] stage = "spawn"        -> {SpawnErr}
      [] OTHER                  -> {}

\* Raft::new (line 146) has returned Ok by the time start_raft is past it
EngineBuiltAt(stage) == stage \in {"peers", "find_leader", "spawn", "ok"}
\* the thread exists once Builder::spawn (line 162) has returned Ok
ThreadSpawnedAt(stage) == stage = "ok"

\* what the 30-poll loop hands on: the index of the first started status, if any
GateFirsts == {NoCount} \cup (0 .. GateMaxAttempts - 1)

InitOutcomeGated(stage, first) ==
    IF stage = "ok" /\ first # NoCount
       THEN [stored |-> TRUE, results |-> {Succeeded}]
       ELSE [stored |-> FALSE,
             results |-> {Failed(e) : e \in IF stage = "ok" THEN {<<"raft not started">>}
                                        ELSE StageErrs(stage)}]
\* what init does with start_raft's outcome and the loop's: `?` on line 224
\* returns the error; otherwise lines 241-248 follow the loop whatever it saw
InitOutcome(stage, first) ==
    IF stage = "ok"
       THEN [stored |-> TRUE, results |-> {Succeeded}]
       ELSE [stored |-> FALSE, results |-> {Failed(e) : e \in StageErrs(stage)}]
StatusErr == <<"status", "error">>
AbnormalErr == <<"Raft cluster status is abnormal">>

StartVerdictAnyOk(st) ==
    IF st = "Err" THEN Failed(StatusErr) ELSE Succeeded
\* lines 268-274: `?` on the status query, then is_started()
StartVerdict(st) ==
    IF st = "Err" THEN Failed(StatusErr)
    ELSE IF st = "Started" THEN Succeeded
    ELSE Failed(AbnormalErr)

NoStopResult == [done |-> FALSE, val |-> FALSE]
\* Ok(false)
StopResult == [done |-> TRUE, val |-> FALSE]

LifeAlive == l_proc = "running"
LifeCallable == LifeAlive /\ l_pc = "idle" /\ l_calls < MaxLifeCalls

ElseUnchanged ==
    UNCHANGED <<sendVars, parseVars, mainVars, clusterVars, execVars>>

\* lines 221-249: one init call
LifeInit ==
    /\ LifeCallable
    /\ l_calls' = l_calls + 1
    /\ l_last' = "init"
    /\ \E stage \in StartRaftStages :
        /\ l_engines' = IF EngineBuiltAt(stage) THEN l_engines + 1 ELSE l_engines
        /\ l_threads' = IF ThreadSpawnedAt(stage) THEN l_threads + 1 ELSE l_threads
        /\ l_live' = IF ThreadSpawnedAt(stage) THEN l_live + 1 ELSE l_live
        /\ \E first \in IF stage = "ok" THEN GateFirsts ELSE {NoCount} :
            LET out == InitOutcome(stage, first) IN
            /\ l_gate_exhausted' = (stage = "ok" /\ first = NoCount)
            /\ \E r \in out.results : l_init_result' = r
            /\ IF out.stored
                  THEN /\ l_mailbox' = l_engines'
                       /\ l_router_mailbox' = l_engines'
                       /\ l_hooks' = l_hooks + Len(HookTypes)
                  ELSE UNCHANGED <<l_mailbox, l_router_mailbox, l_hooks>>
    /\ UNCHANGED <<l_pc, l_stops, l_router_installed, l_shared_installed,
                   l_register_started, l_start_status, l_start_result,
                   l_stop_result, l_proc>>
    /\ ElseUnchanged

LifeStartChecksFirst ==
    /\ LifeCallable
    /\ l_calls' = l_calls + 1
    /\ l_start_status' = NoValue
    /\ l_start_result' = Pending
    /\ IF l_mailbox # 0
          THEN /\ l_last' = "start"
               /\ l_pc' = "start_status"
          ELSE /\ l_last' = "panic"
               /\ l_pc' = l_pc
    /\ UNCHANGED <<l_router_installed, l_shared_installed, l_register_started>>
    /\ UNCHANGED <<l_stops, l_engines, l_threads, l_live, l_mailbox, l_router_mailbox,
                   l_hooks, l_gate_exhausted, l_init_result, l_stop_result, l_proc>>
    /\ ElseUnchanged

\* lines 262-267: start() up to the status query; self.raft_mailbox() is
\* unreachable!() while the field is None
LifeStartInstall ==
    /\ LifeCallable
    /\ l_calls' = l_calls + 1
    /\ l_start_status' = NoValue
    /\ l_start_result' = Pending
    /\ IF l_mailbox # 0
          THEN /\ l_last' = "start"
               /\ l_pc' = "start_status"
               /\ l_router_installed' = TRUE
               /\ l_shared_installed' = TRUE
               /\ l_register_started' = TRUE
          ELSE /\ l_last' = "panic"
               /\ UNCHANGED <<l_pc, l_router_installed, l_shared_installed,
                              l_register_started>>
    /\ UNCHANGED <<l_stops, l_engines, l_threads, l_live, l_mailbox, l_router_mailbox,
                   l_hooks, l_gate_exhausted, l_init_result, l_stop_result, l_proc>>
    /\ ElseUnchanged

\* lines 268-274: the status query and the verdict of start()
LifeStartStatus ==
    /\ LifeAlive /\ l_pc = "start_status"
    /\ \E st \in StatusResults :
        /\ l_start_status' = st
        /\ l_start_result' = StartVerdict(st)
    /\ l_pc' = "idle"
    /\ UNCHANGED <<l_calls, l_stops, l_engines, l_threads, l_live, l_mailbox,
                   l_router_mailbox, l_hooks, l_router_installed, l_shared_installed,
                   l_register_started, l_gate_exhausted, l_init_result,
                   l_stop_result, l_last, l_proc>>
    /\ ElseUnchanged

LifeStopCancels ==
    /\ LifeCallable
    /\ l_calls' = l_calls + 1
    /\ l_stops' = l_stops + 1
    /\ l_stop_result' = [done |-> TRUE, val |-> TRUE]
    /\ l_last' = "stop"
    /\ l_live' = 0
    /\ l_mailbox' = 0
    /\ UNCHANGED <<l_pc, l_engines, l_threads, l_router_mailbox, l_hooks,
                   l_router_installed, l_shared_installed, l_register_started,
                   l_gate_exhausted, l_init_result, l_start_status, l_start_result,
                   l_proc>>
    /\ ElseUnchanged

\* lines 277-281: stop() logs a warning and returns Ok(false)
LifeStop ==
    /\ LifeCallable
    /\ l_calls' = l_calls + 1
    /\ l_stops' = l_stops + 1
    /\ l_stop_result' = StopResult
    /\ l_last' = "stop"
    /\ UNCHANGED <<l_pc, l_engines, l_threads, l_live, l_mailbox, l_router_mailbox,
                   l_hooks, l_router_installed, l_shared_installed,
                   l_register_started, l_gate_exhausted, l_init_result,
                   l_start_status, l_start_result, l_proc>>
    /\ ElseUnchanged

\* lines 294-328: attrs() reads through self.raft_mailbox(), which is
\* unreachable!() while the field is None
LifeAttrs ==
    /\ LifeCallable
    /\ l_calls' = l_calls + 1
    /\ l_last' = IF l_mailbox # 0 THEN "attrs" ELSE "panic"
    /\ UNCHANGED <<l_pc, l_stops, l_engines, l_threads, l_live, l_mailbox,
                   l_router_mailbox, l_hooks, l_router_installed, l_shared_installed,
                   l_register_started, l_gate_exhausted, l_init_result,
                   l_start_status, l_start_result, l_stop_result, l_proc>>
    /\ ElseUnchanged

\* lines 189-193: the lead/join future of one of the threads fails and the
\* thread exits the process
LifeRunnerFails ==
    /\ LifeAlive /\ l_live > 0
    /\ l_proc' = "exited"
    /\ UNCHANGED <<l_pc, l_calls, l_stops, l_engines, l_threads, l_live, l_mailbox,
                   l_router_mailbox, l_hooks, l_router_installed, l_shared_installed,
                   l_register_started, l_gate_exhausted, l_init_result,
                   l_start_status, l_start_result, l_stop_result, l_last>>
    /\ ElseUnchanged

\* lines 189, 196-197: the lead/join future of one of the threads returns
\* Ok(Ok(..)) and the thread runs off its end
LifeRunnerEnds ==
    /\ LifeAlive /\ l_live > 0
    /\ l_live' = l_live - 1
    /\ UNCHANGED <<l_pc, l_calls, l_stops, l_engines, l_threads, l_mailbox,
                   l_router_mailbox, l_hooks, l_router_installed, l_shared_installed,
                   l_register_started, l_gate_exhausted, l_init_result,
                   l_start_status, l_start_result, l_stop_result, l_last, l_proc>>
    /\ ElseUnchanged

\* the plugin as ClusterPlugin::new leaves it (raft_mailbox: None, line 114)
LifeIdle ==
    /\ l_pc = "idle"
    /\ l_calls = 0
    /\ l_stops = 0
    /\ l_engines = 0
    /\ l_threads = 0
    /\ l_live = 0
    /\ l_mailbox = 0
    /\ l_router_mailbox = 0
    /\ l_hooks = 0
    /\ l_router_installed = FALSE
    /\ l_shared_installed = FALSE
    /\ l_register_started = FALSE
    /\ l_gate_exhausted = FALSE
    /\ l_init_result = Pending
    /\ l_start_status = NoValue
    /\ l_start_result = Pending
    /\ l_stop_result = NoStopResult
    /\ l_last = NoValue
    /\ l_proc = "running"

----------------------------------------------------------------------------
(* The task executor cell                                                  *)

MaxExecCalls == 5
MaxWorkers == 2
MaxQueueMax == 2

NoExec == [some |-> FALSE, n |-> 0, workers |-> 0, queue_max |-> 0]
\* the n-th executor Builder::build has made, with its configuration
Exec(n, workers, queue_max) ==
    [some |-> TRUE, n |-> n, workers |-> workers, queue_max |-> queue_max]

CellSetReplaces(cell, exec) == exec
\* OnceCell::set: an empty cell takes the value, a full cell keeps its own
CellSet(cell, exec) == IF cell.some THEN cell ELSE exec

ExecUnchanged ==
    UNCHANGED <<sendVars, parseVars, mainVars, clusterVars, lifeVars>>

\* lines 392-401: build, spawn the runner, set the cell or panic on expect
InitTaskExecQueue ==
    /\ x_calls < MaxExecCalls
    /\ x_calls' = x_calls + 1
    /\ x_built' = x_built + 1
    /\ x_runners' = x_runners + 1
    /\ \E workers \in 1 .. MaxWorkers, queue_max \in 1 .. MaxQueueMax :
        x_cell' = CellSet(x_cell, Exec(x_built', workers, queue_max))
    /\ x_last' = IF x_cell.some THEN "init_panic" ELSE "init"
    /\ UNCHANGED x_got
    /\ ExecUnchanged

\* lines 403-406: get the cell's value or panic on expect
TaskExecQueue ==
    /\ x_calls < MaxExecCalls
    /\ x_calls' = x_calls + 1
    /\ IF x_cell.some
          THEN /\ x_got' = x_cell
               /\ x_last' = "get"
          ELSE /\ x_got' = x_got
               /\ x_last' = "get_panic"
    /\ UNCHANGED <<x_cell, x_built, x_runners>>
    /\ ExecUnchanged

\* the process before ClusterPlugin::new: `OnceCell::new()`, line 390
ExecIdle ==
    /\ x_cell = NoExec
    /\ x_built = 0
    /\ x_runners = 0
    /\ x_calls = 0
    /\ x_last = NoValue
    /\ x_got = NoExec

----------------------------------------------------------------------------
(* Specifications                                                          *)

\* one MessageSender::send call
SpecSendInit == SendInit /\ ParseIdle /\ MainIdle /\ ClusterIdle /\ LifeIdle /\ ExecIdle
SpecSendNext == SendAttemptOk \/ SendAttemptErr \/ SendSleep
SpecSend == SpecSendInit /\ [][SpecSendNext]_vars

\* one parse_addr call
SpecParseInit == ParseInit /\ SendIdle /\ MainIdle /\ ClusterIdle /\ LifeIdle /\ ExecIdle
SpecParseNext == ParseResolve \/ ParseSleep
SpecParse == SpecParseInit /\ [][SpecParseNext]_vars

\* Plugin::init of one node, with the thread start_raft spawns
Init == MainInit /\ ParseIdle /\ SendIdle /\ ClusterIdle /\ LifeIdle /\ ExecIdle
Next ==
    \/ StartRaftFindSelf
    \/ ParseResolve
    \/ ParseSleep
    \/ StartRaftVerified
    \/ StartRaftNew
    \/ StartRaftNextPeer
    \/ StartRaftPeerResolved
    \/ StartRaftFindLeader
    \/ StartRaftSpawn
    \/ Runner
    \/ RunnerFutureCompletes
    \/ RunnerCheck
    \/ RunnerExit
    \/ GatePoll
    \/ GateSleep
    \/ InitStore
    \/ InitHooks
Spec == Init /\ [][Next]_vars

\* the thread is an OS thread of its own: once the spawned future has
\* completed, its check, its 500 ms sleep and its exit are not held up for ever
FairSpec == Spec /\ WF_vars(RunnerCheck) /\ WF_vars(RunnerExit)

\* the nodes of one peer set bootstrapping side by side
SpecClusterInit == ClusterInit /\ SendIdle /\ ParseIdle /\ MainIdle /\ LifeIdle /\ ExecIdle
SpecClusterNext ==
    \/ \E n \in ClusterNodes : ClusterStart(n)
    \/ \E n \in ClusterNodes : ClusterProbe(n)
    \/ \E n \in ClusterNodes : ClusterSpawn(n)
    \/ \E n \in ClusterNodes : ClusterRunner(n)
SpecCluster == SpecClusterInit /\ [][SpecClusterNext]_vars

\* one plugin under any sequence of lifecycle calls
SpecLifeInit == LifeIdle /\ SendIdle /\ ParseIdle /\ MainIdle /\ ClusterIdle /\ ExecIdle
SpecLifeNext ==
    \/ LifeInit
    \/ LifeStartInstall
    \/ LifeStartStatus
    \/ LifeStop
    \/ LifeAttrs
    \/ LifeRunnerFails
    \/ LifeRunnerEnds
SpecLife == SpecLifeInit /\ [][SpecLifeNext]_vars

\* the callers of the executor cell
SpecExecInit == ExecIdle /\ SendIdle /\ ParseIdle /\ MainIdle /\ ClusterIdle /\ LifeIdle
SpecExecNext == InitTaskExecQueue \/ TaskExecQueue
SpecExec == SpecExecInit /\ [][SpecExecNext]_vars

----------------------------------------------------------------------------
(* Properties                                                              *)

\* C1, as stated: once the lead/join future has completed, with any outcome,
\* the thread is on its way to a non-zero process exit or the process has
\* exited; the thread never ends while the process keeps running.
C1_AnyOutcomeExits ==
    /\ t_pc = "ended" => proc = "exited"
    /\ raft_handle \in RaftHandles /\ t_pc \notin {"returned", "flush"}
          => proc = "exited" /\ exit_code # 0

\* the paths of the thread once the future has completed: a JoinError or
\* Ok(Err) outcome leads only to the flush sleep and to exit(-1), the process
\* exits on no other path, and on Ok(Ok) the thread ends with the process running
ErrorPathOnly ==
    /\ raft_handle \in {"JoinErr", "OkErr"} => t_pc \in {"returned", "flush"}
    /\ proc = "exited" =>
          /\ raft_handle \in {"JoinErr", "OkErr"}
          /\ t_pc = "flush"
          /\ exit_code = -1
    /\ proc = "running" => exit_code = NoExit
    /\ raft_handle = "OkOk" => proc = "running" /\ t_pc \in {"returned", "ended"}
    /\ t_pc = "ended" => raft_handle = "OkOk"

\* C1, amended: when the lead/join future completes with a JoinError or with
\* Ok(Err), the process exits with status -1 after the flush sleep and the
\* thread never ends before; when it completes with Ok(Ok) the thread ends
\* and the process keeps running.
C1_FailFastOnError ==
    /\ []ErrorPathOnly
    /\ (raft_handle \in {"JoinErr", "OkErr"}) ~> (proc = "exited" /\ exit_code = -1)
    /\ (raft_handle = "OkOk") ~> (t_pc = "ended" /\ proc = "running")

C1_Witness == proc = "exited" /\ raft_handle = "OkErr" /\ exit_code = -1

\* C2: send makes at most max_retries + 1 attempts; it ends at the first
\* successful attempt, returning that reply, after k <= max_retries failures
\* and k sleeps; it ends in an error only after exactly max_retries + 1
\* failed attempts.
C2_AttemptCount ==
    /\ Len(send_log) <= max_retries + 1
    /\ send_pc = "done" =>
          LET n == Len(send_log) IN
            /\ n >= 1
            /\ \A j \in 1..(n - 1) : ~send_log[j].ok
            /\ send_sleeps = n - 1
            /\ send_result.ok = send_log[n].ok
            /\ send_log[n].ok => send_result.val = send_log[n].val /\ n - 1 <= max_retries
            /\ ~send_log[n].ok => n = max_retries + 1
    /\ send_pc \in {"attempt", "sleep"} => \A j \in 1..Len(send_log) : ~send_log[j].ok

C2_Witness ==
    /\ send_pc = "done" /\ send_result.ok
    /\ Len(send_log) = 3 /\ max_retries = 3

\* C3, as stated: the value send returns carries the retry count, on
\* exhaustion and on success after k failed attempts.
C3_ResultCarriesRetryCount ==
    send_pc = "done" => send_result.retries = current_retry

\* C3, amended: on exhaustion send returns the error of the last attempt as it
\* is, with no retry count; the count is only logged, as max_retries; on
\* success send returns the reply alone and logs nothing.
C3_LastErrorUntagged ==
    send_pc = "done" =>
        LET last == send_log[Len(send_log)] IN
          /\ send_result.retries = NoCount
          /\ send_result.ok = last.ok
          /\ send_result.val = last.val
          /\ ~last.ok => send_errlog = [retries |-> max_retries, err |-> last.val]
          /\ last.ok => send_errlog = NoErrLog

C3_Witness ==
    /\ send_pc = "done" /\ ~send_result.ok
    /\ Len(send_log) = 3
    /\ send_log[1].val # send_log[3].val
    /\ send_result.val = send_log[3].val

\* C4: parse_addr never makes more than 10 resolution attempts; it returns an
\* error only after exactly 10 attempts, each an error or an empty result, and
\* the error names the address it was called with.
C4_FailsAfterTenAttempts ==
    /\ p_attempts <= 10
    /\ p_pc = "done" /\ ~p_result.ok =>
          /\ p_attempts = 10
          /\ p_last.err \/ p_last.addrs = <<>>
          /\ p_result.msg = ParseErrMsg(p_addr)
          /\ p_result.msg[2] = p_addr
    /\ p_pc = "done" /\ (p_last.err \/ p_last.addrs = <<>>) => ~p_result.ok

C4_Witness == p_pc = "done" /\ ~p_result.ok /\ p_attempts = 10 /\ p_last.err

\* C5: parse_addr returns Ok exactly at the first attempt with a non-empty
\* result, with its first address, after one sleep for each earlier attempt
\* and none after the successful one; an error and an empty result both lead
\* to the sleep.
C5_FirstEndpointAtOnce ==
    /\ p_pc = "done" /\ p_result.ok =>
          /\ ~p_last.err /\ p_last.addrs # <<>>
          /\ p_result.ep = p_last.addrs[1]
          /\ p_attempts = p_i + 1
          /\ p_sleeps = p_attempts - 1
          /\ p_attempts <= 10
    /\ p_pc = "sleep" => (p_last.err \/ p_last.addrs = <<>>) /\ p_sleeps = p_attempts - 1
    /\ p_pc = "resolve" => p_attempts = p_i /\ p_sleeps = p_i

C5_Witness ==
    /\ p_pc = "done" /\ p_result.ok
    /\ p_attempts = 3
    /\ Len(p_last.addrs) = 2 /\ p_last.addrs[1] # p_last.addrs[2]

\* C6: the poll loop of init ends at the first status query that reports
\* started, attempt i < 30, after i + 1 queries and i sleeps; with no such
\* query it ends after exactly 30 queries; a query that returns an error goes
\* on to the sleep like one that reports not started, and init does not fail.
AfterGate == {"store", "hooks", "init_done", "panicked"}
C6_GateStops ==
    /\ g_polls <= 30
    /\ pc = "gate_poll" =>
          g_i < 30 /\ g_polls = g_i /\ g_sleeps = g_i /\ g_first_started = NoCount
    /\ pc = "gate_sleep" =>
          /\ g_last \in {"Err", "NotStarted"}
          /\ g_polls = g_i + 1 /\ g_sleeps = g_i /\ g_first_started = NoCount
    /\ pc \in AfterGate =>
          IF g_first_started # NoCount
             THEN /\ g_first_started < 30
                  /\ g_last = "Started"
                  /\ g_polls = g_first_started + 1
                  /\ g_sleeps = g_first_started
             ELSE g_polls = 30 /\ g_sleeps = 30 /\ g_last \in {"Err", "NotStarted"}
    /\ g_polls > 0 => ~(init_result.done /\ ~init_result.ok)

C6_Witness == pc = "init_done" /\ g_first_started = 2 /\ g_polls = 3

\* C7: raft.lead or raft.join is invoked only by the runner of a bootstrap
\* that succeeded, and once the runner has run exactly one of them was
\* invoked, once: lead(local id) iff leader_info is None, join(local id,
\* leader id, leader address) with the discovered pair iff it is Some.
C7_RoleSelection ==
    /\ Len(raft_calls) <= 1
    /\ t_pc # "none" <=> start_raft_result.ok
    /\ t_pc \in {"none", "spawned"} => raft_calls = <<>>
    /\ t_pc \notin {"none", "spawned"} =>
          /\ Len(raft_calls) = 1
          /\ raft_calls[1].id = LocalId
          /\ raft_calls[1].fn = "lead" <=> ~leader_info.some
          /\ raft_calls[1].fn = "join" <=> leader_info.some
          /\ raft_calls[1].fn = "join" =>
                /\ raft_calls[1].leader_id = leader_info.id
                /\ raft_calls[1].leader_addr = leader_info.addr

C7_Witness ==
    /\ start_raft_result.ok
    /\ leader_info = SomeLeader(2, "e2")
    /\ raft_calls = <<JoinCall(LocalId, 2, "e2")>>

\* C8, as stated: at most one node of the peer set runs in the LEADER role.
C8_AtMostOneLeader == Cardinality({n \in ClusterNodes : IsLeader(n)}) <= 1

\* C8, amended: a node runs as LEADER exactly when its own probe returned
\* None, whatever the other nodes do, and as FOLLOWER exactly when the probe
\* returned Some, then of the leader the probe named, a peer that runs as
\* LEADER.
C8_LeaderIffNoLeaderObserved ==
    \A n \in ClusterNodes :
        /\ Len(c_calls[n]) <= 1
        /\ IsLeader(n) <=> c_pc[n] = "serving" /\ ~c_info[n].some
        /\ IsFollower(n) <=> c_pc[n] = "serving" /\ c_info[n].some
        /\ IsFollower(n) =>
              /\ c_calls[n][1].leader_id = c_info[n].id
              /\ c_calls[n][1].leader_addr = ClusterAddr(c_info[n].id)
        /\ c_info[n].some => c_info[n].id # n /\ IsLeader(c_info[n].id)

C8_Witness ==
    \E a, b, c \in ClusterNodes :
        /\ a # b
        /\ IsLeader(a) /\ IsLeader(b)
        /\ IsFollower(c) /\ c_calls[c][1].leader_id = a

\* C9: with no entry of the local id in raft_peer_addrs, start_raft fails at
\* its first step with the "does not exist" error, and init with it: no
\* address is resolved, no Raft is built, no leader is probed, no thread is
\* spawned, no status is polled.
C9_NoSelfFailsFirst ==
    SelfIndexes(raft_peer_addrs, LocalId) = {} /\ pc # "off" =>
        /\ pc \in {"start_raft", "init_failed"}
        /\ p_pc = "idle" /\ p_attempts = 0 /\ p_sleeps = 0
        /\ raft = NoRaft
        /\ leader_info = NoLeaderInfo
        /\ t_pc = "none" /\ raft_calls = <<>>
        /\ g_polls = 0
        /\ raft_mailbox = NoMailbox /\ hooks = <<>>
        /\ pc = "init_failed" =>
              start_raft_result = Failed(NoSelfErr) /\ init_result = Failed(NoSelfErr)

C9_Witness ==
    /\ Len(raft_peer_addrs) = 2
    /\ SelfIndexes(raft_peer_addrs, LocalId) = {}
    /\ pc = "init_failed"
    /\ start_raft_result = Failed(NoSelfErr)

\* C10, as stated: start_raft succeeds only with exactly one entry of the
\* local id in raft_peer_addrs.
C10_ExactlyOneSelfEntry ==
    start_raft_result.ok => Cardinality(SelfIndexes(raft_peer_addrs, LocalId)) = 1

\* C10, amended: start_raft succeeds only with at least one entry of the local
\* id, and fails with none; with several, the first one gives the listening
\* address the Raft is built on, and none of them is resolved as a peer.
NonSelfIndexes(peers, id) == {k \in 1..Len(peers) : peers[k].id # id}
C10_AtLeastOneSelfEntry ==
    /\ start_raft_result.ok =>
          /\ SelfIndexes(raft_peer_addrs, LocalId) # {}
          /\ raft.built
          /\ raft.laddr = raft_peer_addrs[MinOf(SelfIndexes(raft_peer_addrs, LocalId))].addr
    /\ raft.built =>
          raft.laddr = raft_peer_addrs[MinOf(SelfIndexes(raft_peer_addrs, LocalId))].addr
    /\ pc = "spawn" =>
          Len(peer_addrs) = Cardinality(NonSelfIndexes(raft_peer_addrs, LocalId))
    /\ start_raft_result.done /\ SelfIndexes(raft_peer_addrs, LocalId) = {}
          => ~start_raft_result.ok

C10_Witness ==
    /\ start_raft_result.ok
    /\ Cardinality(SelfIndexes(raft_peer_addrs, LocalId)) = 2
    /\ raft_peer_addrs[1].addr # raft_peer_addrs[2].addr
    /\ raft.laddr = raft_peer_addrs[1].addr

\* C11: when start_raft fails, at whichever step, init has returned the very
\* same error and nothing else has happened: no thread was spawned, neither
\* raft.lead nor raft.join was invoked, no status was polled, the plugin's
\* mailbox is unset, the router got no mailbox and no hook was registered.
StartRaftErrors ==
    {NoSelfErr, RaftNewErr, FindLeaderErr, SpawnErr} \cup {ParseErrMsg(a) : a \in Addrs}
C11_FailureLeavesNothingStarted ==
    /\ start_raft_result.done /\ ~start_raft_result.ok =>
          /\ start_raft_result.err \in StartRaftErrors
          /\ init_result = start_raft_result
          /\ pc = "init_failed"
          /\ t_pc = "none" /\ raft_calls = <<>> /\ raft_handle = NoValue
          /\ proc = "running"
          /\ g_polls = 0 /\ g_sleeps = 0
          /\ raft_mailbox = NoMailbox
          /\ router_mailbox = NoMailbox
          /\ hooks = <<>>
    /\ pc = "init_failed" => start_raft_result.done /\ ~start_raft_result.ok
    /\ init_result.done /\ ~init_result.ok => init_result = start_raft_result

C11_Witness ==
    /\ pc = "init_failed"
    /\ raft.built
    /\ Len(raft_peer_addrs) = 2 /\ raft_peer_addrs[2].id # LocalId
    /\ start_raft_result = Failed(ParseErrMsg(raft_peer_addrs[2].addr))

\* C14, as stated: with the Raft built, start_raft is never waiting for the
\* resolution of a peer address or holding the answer of the leader probe
\* before it returns the mailbox.
C14_ReturnWaitsForNothing ==
    raft.built /\ ~start_raft_result.done =>
        /\ p_pc \notin {"resolve", "sleep", "done"}
        /\ pc # "spawn"

\* C14, amended: start_raft returns Ok(mailbox) only in its last step, with
\* the Raft built, every entry of another id resolved, the leader probe
\* answered and the thread spawned by that step; it does not wait for the
\* thread: neither raft.lead nor raft.join has been invoked at the return and
\* the run future has not completed.
C14_ReturnedAfterProbeAndSpawn ==
    [][~start_raft_result.ok /\ start_raft_result'.ok =>
          /\ pc = "spawn"
          /\ raft.built
          /\ Len(peer_addrs) = Cardinality(NonSelfIndexes(raft_peer_addrs, LocalId))
          /\ leader_info \in FindLeaderInfo(peer_addrs)
          /\ t_pc = "none" /\ t_pc' = "spawned"
          /\ raft_calls' = <<>> /\ raft_handle' = NoValue]_vars

C14_Witness ==
    /\ start_raft_result.ok
    /\ Cardinality(NonSelfIndexes(raft_peer_addrs, LocalId)) = 1
    /\ leader_info.some
    /\ pc = "init_done"
    /\ t_pc = "spawned" /\ raft_calls = <<>>

\* C18: in init the mailbox is stored in the plugin and given to the router
\* only after start_raft succeeded and the poll loop has ended, by a started
\* status or after 30 queries; the three hooks are registered, in their
\* order, only with the mailbox stored, and raft_mailbox() never reaches its
\* unreachable!() branch.
C18_InitOrdering ==
    /\ pc # "panicked"
    /\ pc \in {"start_raft", "verify_laddr", "raft_new", "peers", "resolve_peer", "spawn",
               "gate_poll", "gate_sleep", "store", "init_failed"} =>
          raft_mailbox = NoMailbox /\ router_mailbox = NoMailbox /\ hooks = <<>>
    /\ raft_mailbox.some =>
          /\ start_raft_result.ok
          /\ g_first_started # NoCount \/ g_polls = 30
          /\ raft_mailbox = [some |-> TRUE, laddr |-> raft.laddr]
          /\ router_mailbox = raft_mailbox
    /\ router_mailbox.some => raft_mailbox.some
    /\ pc = "hooks" => raft_mailbox.some /\ hooks = <<>>
    /\ hooks # <<>> =>
          /\ raft_mailbox.some
          /\ hooks = <<"ClientDisconnected", "SessionTerminated", "GrpcMessageReceived">>
          /\ init_result = Succeeded
    /\ init_result.ok => pc = "init_done" /\ hooks # <<>>

C18_Witness ==
    /\ pc = "init_done"
    /\ g_first_started = NoCount /\ g_polls = 30
    /\ raft_mailbox.some /\ router_mailbox = raft_mailbox
    /\ Len(hooks) = 3

\* C12: start() returns Ok only when the status query it makes itself
\* succeeded and reported started; a failed query makes it return that
\* error, a status that is not started makes it return "Raft cluster status
\* is abnormal"; a plugin whose raft_mailbox was never set (no init got
\* through its bootstrap) never has a start() that returned at all.
C12_StartedOnlyIfStatusStarted ==
    /\ l_start_result.ok
          => l_start_status = "Started" /\ l_mailbox # 0 /\ l_pc = "idle"
    /\ l_start_status # NoValue => l_start_result.done
    /\ l_start_status = "Err" => l_start_result = Failed(StatusErr)
    /\ l_start_status = "NotStarted" => l_start_result = Failed(AbnormalErr)
    /\ l_start_result.done => l_start_status # NoValue
    /\ l_mailbox = 0 => ~l_start_result.done

C12_Witness ==
    /\ l_start_result.ok /\ l_start_status = "Started"
    /\ l_init_result.ok /\ l_calls = 2

\* C13, as stated: after an init whose poll loop ran out without a started
\* status, start() succeeds although the status it sees is not started.
C13_StartSucceedsWithoutReadiness ==
    l_gate_exhausted /\ l_init_result.ok /\ l_last = "start"
        /\ l_start_result.done /\ l_start_status # "Started"
            => l_start_result.ok

\* C13, amended: the poll loop is advisory for init only. An init whose loop
\* ran out without a started status still stores the mailbox of the engine it
\* built, registers its three hooks and returns Ok; a start() after it returns
\* Ok exactly when its own status query reports started, and an error otherwise.
C13_AdvisoryForInitOnly ==
    /\ l_gate_exhausted
          => /\ l_init_result.ok
             /\ l_mailbox = l_engines /\ l_router_mailbox = l_engines
             /\ l_hooks >= Len(HookTypes)
    /\ l_gate_exhausted /\ l_start_result.done
          => (l_start_result.ok <=> l_start_status = "Started")

C13_Witness ==
    /\ l_gate_exhausted /\ l_init_result.ok /\ l_calls = 2
    /\ l_last = "start" /\ l_start_result = Failed(AbnormalErr)

\* C15, as stated: over any sequence of lifecycle calls at most one Raft
\* instance is built and at most one cluster-raft thread is spawned, and a
\* raft_mailbox that is set keeps referring to the same instance.
C15_CreatedAtMostOnce ==
    [][/\ l_engines' <= 1
       /\ l_threads' <= 1
       /\ l_mailbox # 0 => l_mailbox' = l_mailbox]_vars

\* C19: every stop() returns Ok(false) and leaves the plugin's mailbox, the
\* router's mailbox, the registered hooks, the installed router and shared
\* state, the started register, the engines and the threads as they were;
\* and no lifecycle call at all (init, start, stop, attrs) ends a thread or
\* the process.
C19_StopChangesNothing ==
    [][/\ l_stops' # l_stops
            => /\ l_stop_result' = StopResult
               /\ l_last' = "stop"
               /\ UNCHANGED <<l_mailbox, l_router_mailbox, l_hooks,
                              l_router_installed, l_shared_installed,
                              l_register_started, l_engines, l_threads,
                              l_live, l_proc>>
       /\ l_calls' # l_calls => l_live' >= l_live /\ l_proc' = l_proc]_vars

C19_Witness ==
    /\ l_last = "stop" /\ l_stop_result = StopResult
    /\ l_mailbox # 0 /\ l_live >= 1 /\ l_hooks = Len(HookTypes)
    /\ l_router_installed /\ l_start_result.ok

\* C20: start() has installed the cluster router and the cluster shared
\* state and started the hook register by the time it makes its status
\* query, so they are in place whenever start() has returned, with an error
\* as well as with Ok; and nothing takes them out again afterwards.
C20_EffectsBeforeStatusCheck ==
    /\ [](/\ l_pc = "start_status"
              => /\ l_router_installed /\ l_shared_installed /\ l_register_started
                 /\ l_start_status = NoValue /\ ~l_start_result.done
          /\ l_start_result.done
              => l_router_installed /\ l_shared_installed /\ l_register_started)
    /\ [][/\ l_router_installed => l_router_installed'
          /\ l_shared_installed => l_shared_installed'
          /\ l_register_started => l_register_started']_vars

C20_Witness ==
    /\ l_last = "start" /\ l_start_result = Failed(StatusErr)
    /\ l_router_installed /\ l_shared_installed /\ l_register_started

\* C16: the first init_task_exec_queue sets the cell to the executor it
\* built; every later one panics and leaves the cell as it was; every
\* task_exec_queue() that returns hands out the cell's executor, which is the
\* first one built; task_exec_queue() on an unset cell panics and hands out
\* nothing.
C16_InitializedOnce ==
    /\ [](x_got.some => x_got = x_cell /\ x_cell.n = 1)
    /\ [][/\ x_cell.some => x_cell' = x_cell
          /\ x_built' # x_built /\ ~x_cell.some
                => /\ x_last' = "init" /\ x_built = 0
                   /\ x_cell'.some /\ x_cell'.n = 1
          /\ x_built' # x_built /\ x_cell.some => x_last' = "init_panic"
          /\ x_calls' # x_calls /\ x_built' = x_built /\ x_cell.some
                => x_last' = "get" /\ x_got' = x_cell
          /\ x_calls' # x_calls /\ x_built' = x_built /\ ~x_cell.some
                => x_last' = "get_panic" /\ x_got' = x_got /\ ~x_got.some]_vars

C16_Witness ==
    /\ x_last = "get" /\ x_built = 2 /\ x_calls = 3
    /\ x_got = x_cell /\ x_cell.n = 1

====
